---- MODULE Spec2Model ----
(***************************************************************************)
(* DJ Python (src/ai_dj/dj_python.py): the poll loop that detects Dead     *)
(* Songs Walking, synthesises an announcement, uploads it, inserts it in   *)
(* the songs table with status next_play and marks the song announced.     *)
(*                                                                         *)
(* One action per step of the loop; the outcome of every external call     *)
(* (Supabase query/insert/update, storage upload, Voicebox TTS) is chosen  *)
(* by the environment when the call is made.                               *)
(***************************************************************************)
EXTENDS Naturals, Sequences, FiniteSets, TLC

(* ------------------------------ bounds -------------------------------- *)
\* number of catalog songs
NumSongs == 2
\* how many adverse events (a failed external call, a kill of the process)
\* one behaviour contains
MaxFaults == 2

(* ------------------------- program constants -------------------------- *)
BOT_USER_ID == "dj-python-bot"
DurationSec == 15
ArtistLabel == "DJ Python"
SourceTag == "ai_announcement"
NextPlay == "next_play"
CoverArt == "https://i.pravatar.cc/150?u=djpython"
\* line 112; the first character of the source's literal is U+1F6A8
AlertPrefix == "(U+1F6A8) DSW Alert: "

Ids == 1..NumSongs
\* the values uuid.uuid4().hex[:8] returns, in the order of the calls.  Two of
\* the 16^8 values, then the same again: a draw differs from the one before
\* it, and a path can be drawn a second time and overwritten (upsert).
UuidStream == <<"0a1b2c3d", "9f8e7d6c">>
NoneVal == "None"
Outcome == {"none", "ok", "fail"}

\* titles and artists of the catalog rows; two songs may share a title
TitleOf(id) == IF id = 2 THEN "Night Drive" ELSE "Epic Fail"
ArtistOf(id) == IF id % 2 = 1 THEN "DJ X" ELSE "MC Y"

VARIABLES
    pc,           \* position of the process
    config,       \* which of SUPABASE_URL / SUPABASE_SERVICE_ROLE_KEY are set
    exitCode,     \* <<status>> of sys.exit, <<>> while the process has not exited
    catalog,      \* songs table: the rows that can be tagged is_dsw
    queue,        \* songs table: the rows inserted by inject_announcement
    storage,      \* bucket "songs": storage path -> bytes
    songs,        \* response.data of the last poll
    i,            \* index in songs of the song of the current iteration
    audio_bytes,  \* local of check_for_dead_songs
    public_url,   \* local of check_for_dead_songs
    log,          \* history: per song, the outcome of each call in this poll
    forSong,      \* history: for each row of queue, the song it was inserted for
    mark,         \* history: Len(queue) when the last poll began
    acked,        \* history: the songs this process marked announced
    lost,         \* history: per song, inserted rows whose ack was not written
    interrupted,  \* history: songs in flight at a kill and not synthesised since
    printed,      \* the failure reports printed in this poll, with the call of each
    published,    \* history: the number of uploads that succeeded
    drawn,        \* number of calls of uuid.uuid4() so far, modulo Len(UuidStream)
    faults        \* adverse events so far

vars == <<pc, config, exitCode, catalog, queue, storage, songs, i, audio_bytes,
          public_url, log, forSong, mark, acked, lost, interrupted, printed,
          published, drawn, faults>>

locals == <<songs, i, audio_bytes, public_url>>
history == <<log, forSong, mark, acked, lost, interrupted>>
trace == <<printed, published>>

(* ------------------------- pure functions ----------------------------- *)
\* line 100: the announcement script
Script(song) ==
    "Attention Club Youniverse. The track " \o song.title \o " by "
        \o song.artist_name
        \o " just bombed the dance floor and hit zero stars. It is officially a Dead Song Walking. Next time you hear it, it's the Farewell Play. Rest in peace."

\* response.content of a 2xx answer of /api/tts with a body
Mp3(text) == "ID3/dj_voice/" \o text
\* response.content of a 2xx answer with an empty body
EmptyBytes == ""

\* `not x` of Python for the values x takes here
Falsy(x) == x = NoneVal \/ x = ""

\* line 108
Filename(u) == "dsw_alert_" \o u \o ".mp3"
\* line 46
StoragePath(filename) == "ai_dj/" \o filename
\* line 54
PublicUrl(path) == "https://supabase/storage/v1/object/public/songs/" \o path

Paths == {StoragePath(Filename(UuidStream[k])) : k \in DOMAIN UuidStream}

\* the title built from the wrong column
AlertTitleOfArtist(song) == AlertPrefix \o song.artist_name

\* what str(e) of a caught exception may be: a refused connection reads the
\* same whichever call met it
Exceptions == {"[Errno 111] Connection refused"}
\* line 41
VoiceboxReport(e) == "Voicebox generation failed: " \o e
\* line 57
UploadReport(e) == "Storage Upload failed: " \o e
\* line 77
InsertReport(e) == "Database Insertion failed: " \o e
\* line 121
PollReport(e) == "Error polling Supabase: " \o e

\* line 112
AlertTitle(song) == AlertPrefix \o song.title

\* the row inserted with the status of an ordinary upload
AnnouncementRowPending(url, title) ==
    [uploader_id |-> BOT_USER_ID, title |-> title, artist_name |-> ArtistLabel,
     source |-> SourceTag, audio_url |-> url, duration_sec |-> DurationSec,
     status |-> "pending", cover_art_url |-> CoverArt, is_canvas |-> FALSE]

\* lines 64-74: the inserted row
AnnouncementRow(url, title) ==
    [uploader_id |-> BOT_USER_ID, title |-> title, artist_name |-> ArtistLabel,
     source |-> SourceTag, audio_url |-> url, duration_sec |-> DurationSec,
     status |-> NextPlay, cover_art_url |-> CoverArt, is_canvas |-> FALSE]

\* the filter without .eq("dsw_announced", False)
SelectedAnyDsw(row) == row.is_dsw = TRUE

\* lines 84-88: the filter of the query
Selected(row) == row.is_dsw = TRUE /\ row.dsw_announced = FALSE

RECURSIVE Perms(_)
\* every order in which the store may return the rows of a set
Perms(S) ==
    IF S = {} THEN {<<>>}
    ELSE UNION {{<<x>> \o p : p \in Perms(S \ {x})} : x \in S}

\* the query without its two .eq filters
QueryResultsUnfiltered == Perms({catalog[id] : id \in Ids})

\* lines 84-90: the possible results of the query
QueryResults == Perms({catalog[id] : id \in {d \in Ids : Selected(catalog[d])}})

NoLog == [synth |-> "none", upload |-> "none", insert |-> "none", ack |-> "none"]

CanFail == faults < MaxFaults

(* ------------------------------ Init ---------------------------------- *)
Init ==
    /\ pc = "start"
    /\ config \in [url : BOOLEAN, key : BOOLEAN]
    /\ exitCode = <<>>
    /\ \E f \in [Ids -> BOOLEAN], a \in [Ids -> BOOLEAN] :
         catalog = [id \in Ids |->
                      [id |-> id, title |-> TitleOf(id), artist_name |-> ArtistOf(id),
                       is_dsw |-> f[id], dsw_announced |-> a[id]]]
    /\ queue = <<>>
    /\ storage = [p \in Paths |-> NoneVal]
    /\ songs = <<>>
    /\ i = 0
    /\ audio_bytes = NoneVal
    /\ public_url = NoneVal
    /\ log = [id \in Ids |-> NoLog]
    /\ forSong = <<>>
    /\ mark = 0
    /\ acked = {}
    /\ lost = [id \in Ids |-> 0]
    /\ interrupted = {}
    /\ printed = <<>>
    /\ published = 0
    /\ drawn = 0
    /\ faults = 0

(* ----------------------------- actions -------------------------------- *)
\* line 18 with `and`: the process stops only when both are missing
StartupBothMissing ==
    /\ pc = "start"
    /\ IF ~config.url /\ ~config.key
       THEN pc' = "exited" /\ exitCode' = <<1>>
       ELSE pc' = "fetch" /\ exitCode' = exitCode
    /\ UNCHANGED <<drawn, config, catalog, queue, storage, locals, history, trace, faults>>

\* lines 12-20: module startup
Startup ==
    /\ pc = "start"
    /\ IF ~config.url \/ ~config.key
       THEN pc' = "exited" /\ exitCode' = <<1>>
       ELSE pc' = "fetch" /\ exitCode' = exitCode
    /\ UNCHANGED <<drawn, config, catalog, queue, storage, locals, history, trace, faults>>

\* the iteration of `for song in songs` ends: next song, or return to main
Advance ==
    /\ audio_bytes' = NoneVal
    /\ public_url' = NoneVal
    /\ IF i < Len(songs)
       THEN i' = i + 1 /\ pc' = "synth"
       ELSE i' = 0 /\ pc' = "sleep"
    /\ UNCHANGED songs

\* the call outside the try block: the exception ends the process
AbortExits ==
    /\ audio_bytes' = NoneVal
    /\ public_url' = NoneVal
    /\ i' = 0
    /\ pc' = "exited"

\* the except clause of line 120: check_for_dead_songs returns
Abort ==
    /\ audio_bytes' = NoneVal
    /\ public_url' = NoneVal
    /\ i' = 0
    /\ pc' = "sleep"

\* lines 91-92 leaving the program: `if not songs: sys.exit()`
ReturnEmptyExits ==
    /\ i' = 0
    /\ pc' = "exited"

\* lines 91-92: `if not songs: return`
ReturnEmpty ==
    /\ i' = 0
    /\ pc' = "sleep"

\* lines 84-94: the poll
Fetch ==
    /\ pc = "fetch"
    /\ log' = [id \in Ids |-> NoLog]
    /\ mark' = Len(queue)
    /\ \/ /\ CanFail
          /\ faults' = faults + 1
          /\ songs' = <<>>
          /\ \E e \in Exceptions :
               printed' = <<[by |-> "fetch", text |-> PollReport(e)]>>
          /\ Abort
       \/ /\ faults' = faults
          /\ printed' = <<>>
          /\ \E rows \in QueryResults :
               /\ songs' = rows
               /\ audio_bytes' = NoneVal
               /\ public_url' = NoneVal
               /\ IF rows = <<>>
                  THEN ReturnEmpty
                  ELSE i' = 1 /\ pc' = "synth"
    /\ UNCHANGED <<drawn, config, exitCode, catalog, queue, storage,
                   forSong, acked, lost, interrupted, published>>

Song == songs[i]

\* line 108: uuid.uuid4().hex[:8]
Uuid4Hex8 == UuidStream[drawn + 1]

\* lines 104-105 testing `audio_bytes is None`: an empty body is uploaded
SynthesizeIsNone ==
    /\ pc = "synth"
    /\ printed' = printed
    /\ \/ /\ CanFail
          /\ faults' = faults + 1
          /\ log' = [log EXCEPT ![Song.id].synth = "fail"]
          /\ \E r \in {NoneVal, EmptyBytes} :
               IF r = NoneVal
               THEN Advance
               ELSE /\ audio_bytes' = r
                    /\ pc' = "upload"
                    /\ UNCHANGED <<songs, i, public_url>>
       \/ /\ faults' = faults
          /\ audio_bytes' = Mp3(Script(Song))
          /\ log' = [log EXCEPT ![Song.id].synth = "ok"]
          /\ pc' = "upload"
          /\ UNCHANGED <<songs, i, public_url>>
    /\ interrupted' = interrupted \ {Song.id}
    /\ UNCHANGED <<drawn, config, exitCode, catalog, queue, storage,
                   forSong, mark, acked, lost, published>>

\* lines 100-105 with generate_voicebox_audio (26-42)
Synthesize ==
    /\ pc = "synth"
    /\ \/ /\ CanFail
          /\ faults' = faults + 1
          /\ \E r \in {NoneVal, EmptyBytes} :
               \* an exception gives None, an empty 2xx body gives b""
               /\ Falsy(r)
               /\ IF r = NoneVal
                  THEN \E e \in Exceptions :
                         printed' = Append(printed,
                                           [by |-> "synth", text |-> VoiceboxReport(e)])
                  ELSE printed' = printed
               /\ log' = [log EXCEPT ![Song.id].synth = "fail"]
               /\ Advance
       \/ /\ faults' = faults
          /\ printed' = printed
          /\ LET r == Mp3(Script(Song)) IN
               /\ ~Falsy(r)
               /\ audio_bytes' = r
               /\ log' = [log EXCEPT ![Song.id].synth = "ok"]
               /\ pc' = "upload"
               /\ UNCHANGED <<songs, i, public_url>>
    /\ interrupted' = interrupted \ {Song.id}
    /\ UNCHANGED <<drawn, config, exitCode, catalog, queue, storage,
                   forSong, mark, acked, lost, published>>

\* lines 115-118 placed before line 112: the song is marked before the insert
UploadThenMark ==
    /\ pc = "upload"
    /\ drawn' = (drawn + 1) % Len(UuidStream)
    /\ LET path == StoragePath(Filename(Uuid4Hex8)) IN
         \/ /\ CanFail
            /\ faults' = faults + 1
            /\ log' = [log EXCEPT ![Song.id].upload = "fail"]
            /\ storage' = storage
            /\ published' = published
            /\ \E e \in Exceptions :
                 printed' = Append(printed, [by |-> "upload", text |-> UploadReport(e)])
            /\ catalog' = catalog
            /\ Advance
         \/ /\ faults' = faults
            /\ storage' = [storage EXCEPT ![path] = audio_bytes]
            /\ public_url' = PublicUrl(path)
            /\ published' = published + 1
            /\ printed' = printed
            /\ log' = [log EXCEPT ![Song.id].upload = "ok"]
            /\ catalog' = [catalog EXCEPT ![Song.id].dsw_announced = TRUE]
            /\ pc' = "inject"
            /\ UNCHANGED <<songs, i, audio_bytes>>
    /\ UNCHANGED <<config, exitCode, queue,
                   forSong, mark, acked, lost, interrupted>>

\* line 111 without the test of public_url
UploadUnchecked ==
    /\ pc = "upload"
    /\ drawn' = (drawn + 1) % Len(UuidStream)
    /\ LET path == StoragePath(Filename(Uuid4Hex8)) IN
         \/ /\ CanFail
            /\ faults' = faults + 1
            /\ log' = [log EXCEPT ![Song.id].upload = "fail"]
            /\ storage' = storage
            /\ published' = published
            /\ \E e \in Exceptions :
                 printed' = Append(printed, [by |-> "upload", text |-> UploadReport(e)])
            /\ public_url' = NoneVal
         \/ /\ faults' = faults
            /\ storage' = [storage EXCEPT ![path] = audio_bytes]
            /\ public_url' = PublicUrl(path)
            /\ published' = published + 1
            /\ printed' = printed
            /\ log' = [log EXCEPT ![Song.id].upload = "ok"]
    /\ pc' = "inject"
    /\ UNCHANGED <<songs, i, audio_bytes>>
    /\ UNCHANGED <<config, exitCode, catalog, queue,
                   forSong, mark, acked, lost, interrupted>>

\* get_public_url of line 54 moved after the except clause: the URL is
\* returned whether or not the upload succeeded
UploadUrlAnyway ==
    /\ pc = "upload"
    /\ drawn' = (drawn + 1) % Len(UuidStream)
    /\ LET path == StoragePath(Filename(Uuid4Hex8)) IN
         /\ \/ /\ CanFail
               /\ faults' = faults + 1
               /\ log' = [log EXCEPT ![Song.id].upload = "fail"]
               /\ storage' = storage
               /\ published' = published
               /\ \E e \in Exceptions :
                    printed' = Append(printed, [by |-> "upload", text |-> UploadReport(e)])
            \/ /\ faults' = faults
               /\ storage' = [storage EXCEPT ![path] = audio_bytes]
               /\ published' = published + 1
               /\ printed' = printed
               /\ log' = [log EXCEPT ![Song.id].upload = "ok"]
         /\ public_url' = PublicUrl(path)
         /\ pc' = "inject"
         /\ UNCHANGED <<songs, i, audio_bytes>>
    /\ UNCHANGED <<config, exitCode, catalog, queue,
                   forSong, mark, acked, lost, interrupted>>

\* lines 108-111 with upload_to_supabase (44-58)
Upload ==
    /\ pc = "upload"
    /\ drawn' = (drawn + 1) % Len(UuidStream)
    /\ LET path == StoragePath(Filename(Uuid4Hex8)) IN
         \/ /\ CanFail
            /\ faults' = faults + 1
            /\ log' = [log EXCEPT ![Song.id].upload = "fail"]
            /\ storage' = storage
            /\ published' = published
            /\ \E e \in Exceptions :
                 printed' = Append(printed, [by |-> "upload", text |-> UploadReport(e)])
            /\ Advance
         \/ /\ faults' = faults
            /\ storage' = [storage EXCEPT ![path] = audio_bytes]
            /\ public_url' = PublicUrl(path)
            /\ published' = published + 1
            /\ printed' = printed
            /\ log' = [log EXCEPT ![Song.id].upload = "ok"]
            /\ pc' = "inject"
            /\ UNCHANGED <<songs, i, audio_bytes>>
    /\ UNCHANGED <<config, exitCode, catalog, queue,
                   forSong, mark, acked, lost, interrupted>>

\* line 112 with inject_announcement (60-77): the failure is caught and
\* printed there, nothing is returned, and line 115 follows in both cases
Inject ==
    /\ pc = "inject"
    /\ \/ /\ CanFail
          /\ faults' = faults + 1
          /\ queue' = queue
          /\ forSong' = forSong
          /\ \E e \in Exceptions :
               printed' = Append(printed, [by |-> "insert", text |-> InsertReport(e)])
          /\ log' = [log EXCEPT ![Song.id].insert = "fail"]
       \/ /\ faults' = faults
          /\ queue' = Append(queue, AnnouncementRow(public_url, AlertTitle(Song)))
          /\ forSong' = Append(forSong, Song.id)
          /\ printed' = printed
          /\ log' = [log EXCEPT ![Song.id].insert = "ok"]
    /\ pc' = "ack"
    /\ UNCHANGED <<drawn, config, exitCode, catalog, storage, locals,
                   mark, acked, lost, interrupted, published>>

\* lines 115-118 with a filter that matches no row: the update succeeds and
\* writes nothing
AcknowledgeNoRow ==
    /\ pc = "ack"
    /\ \/ /\ CanFail
          /\ faults' = faults + 1
          /\ log' = [log EXCEPT ![Song.id].ack = "fail"]
          /\ \E e \in Exceptions :
               printed' = Append(printed, [by |-> "ack", text |-> PollReport(e)])
          /\ lost' = [lost EXCEPT ![Song.id] =
                        IF log[Song.id].insert = "ok" THEN @ + 1 ELSE @]
          /\ Abort
          /\ UNCHANGED songs
       \/ /\ faults' = faults
          /\ log' = [log EXCEPT ![Song.id].ack = "ok"]
          /\ printed' = printed
          /\ lost' = lost
          /\ Advance
    /\ UNCHANGED <<catalog, acked>>
    /\ UNCHANGED <<drawn, config, exitCode, queue, storage, forSong, mark, interrupted,
                   published>>

\* lines 115-118 outside the try block: the exception ends the process
AcknowledgeUncaught ==
    /\ pc = "ack"
    /\ \/ /\ CanFail
          /\ faults' = faults + 1
          /\ catalog' = catalog
          /\ acked' = acked
          /\ log' = [log EXCEPT ![Song.id].ack = "fail"]
          /\ \E e \in Exceptions :
               printed' = Append(printed, [by |-> "ack", text |-> PollReport(e)])
          /\ lost' = [lost EXCEPT ![Song.id] =
                        IF log[Song.id].insert = "ok" THEN @ + 1 ELSE @]
          /\ pc' = "exited"
          /\ exitCode' = <<1>>
          /\ UNCHANGED locals
       \/ /\ faults' = faults
          /\ catalog' = [catalog EXCEPT ![Song.id].dsw_announced = TRUE]
          /\ acked' = acked \cup {Song.id}
          /\ log' = [log EXCEPT ![Song.id].ack = "ok"]
          /\ printed' = printed
          /\ lost' = lost
          /\ exitCode' = exitCode
          /\ Advance
    /\ UNCHANGED <<drawn, config, queue, storage, forSong, mark, interrupted,
                   published>>

\* lines 115-118 without .eq("id", song["id"]): every row is updated
AcknowledgeAllRows ==
    /\ pc = "ack"
    /\ \/ /\ CanFail
          /\ faults' = faults + 1
          /\ catalog' = catalog
          /\ acked' = acked
          /\ log' = [log EXCEPT ![Song.id].ack = "fail"]
          /\ \E e \in Exceptions :
               printed' = Append(printed, [by |-> "ack", text |-> PollReport(e)])
          /\ lost' = [lost EXCEPT ![Song.id] =
                        IF log[Song.id].insert = "ok" THEN @ + 1 ELSE @]
          /\ Abort
          /\ UNCHANGED songs
       \/ /\ faults' = faults
          /\ catalog' = [id \in Ids |-> [catalog[id] EXCEPT !.dsw_announced = TRUE]]
          /\ acked' = acked \cup {Song.id}
          /\ log' = [log EXCEPT ![Song.id].ack = "ok"]
          /\ printed' = printed
          /\ lost' = lost
          /\ Advance
    /\ UNCHANGED <<drawn, config, exitCode, queue, storage, forSong, mark, interrupted,
                   published>>

\* lines 115-118; an exception leaves through the except clause of line 120
Acknowledge ==
    /\ pc = "ack"
    /\ \/ /\ CanFail
          /\ faults' = faults + 1
          /\ catalog' = catalog
          /\ acked' = acked
          /\ log' = [log EXCEPT ![Song.id].ack = "fail"]
          /\ \E e \in Exceptions :
               printed' = Append(printed, [by |-> "ack", text |-> PollReport(e)])
          /\ lost' = [lost EXCEPT ![Song.id] =
                        IF log[Song.id].insert = "ok" THEN @ + 1 ELSE @]
          /\ Abort
          /\ UNCHANGED songs
       \/ /\ faults' = faults
          /\ catalog' = [catalog EXCEPT ![Song.id].dsw_announced = TRUE]
          /\ acked' = acked \cup {Song.id}
          /\ log' = [log EXCEPT ![Song.id].ack = "ok"]
          /\ printed' = printed
          /\ lost' = lost
          /\ Advance
    /\ UNCHANGED <<drawn, config, exitCode, queue, storage, forSong, mark, interrupted,
                   published>>

\* line 127: time.sleep(10), then the next poll
Sleep ==
    /\ pc = "sleep"
    /\ pc' = "fetch"
    /\ UNCHANGED <<drawn, config, exitCode, catalog, queue, storage, locals, history, trace,
                   faults>>

Running == {"fetch", "synth", "upload", "inject", "ack", "sleep"}

\* the songs of the poll whose iteration has not ended
InFlight == IF i = 0 THEN {} ELSE {songs[k].id : k \in i..Len(songs)}

\* the process is killed (the only way it stops)
Crash ==
    /\ pc \in Running
    /\ CanFail
    /\ faults' = faults + 1
    /\ pc' = "down"
    /\ interrupted' = interrupted \cup InFlight
    /\ lost' = IF pc = "ack" /\ log[Song.id].insert = "ok"
               THEN [lost EXCEPT ![Song.id] = @ + 1] ELSE lost
    /\ songs' = <<>>
    /\ i' = 0
    /\ audio_bytes' = NoneVal
    /\ public_url' = NoneVal
    /\ UNCHANGED <<drawn, config, exitCode, catalog, queue, storage, log, forSong, mark,
                   acked, trace>>

\* the process is started again
Restart ==
    /\ pc = "down"
    /\ pc' = "start"
    /\ UNCHANGED <<drawn, config, exitCode, catalog, queue, storage, locals, history,
                   trace, faults>>

\* the club tags a song as a Dead Song Walking.  The process reads is_dsw
\* only in the query of line 84, so a tag set during a poll is the same to it
\* as one set before the next poll.
TagDeadSong ==
    /\ pc = "sleep"
    /\ \E id \in Ids :
         /\ ~catalog[id].is_dsw
         /\ catalog' = [catalog EXCEPT ![id].is_dsw = TRUE]
    /\ UNCHANGED <<drawn, pc, config, exitCode, queue, storage, locals, history, trace,
                   faults>>

Next ==
    \/ Startup
    \/ Fetch
    \/ Synthesize
    \/ Upload
    \/ Inject
    \/ Acknowledge
    \/ Sleep
    \/ Crash
    \/ Restart
    \/ TagDeadSong

Spec == Init /\ [][Next]_vars

\* The process is sequential and every external call returns, so the step it
\* is at is eventually taken; a killed process is started again.
Progress ==
    /\ WF_vars(Startup)
    /\ WF_vars(Fetch)
    /\ WF_vars(Synthesize)
    /\ WF_vars(Upload)
    /\ WF_vars(Inject)
    /\ WF_vars(Acknowledge)
    /\ WF_vars(Sleep)

FairSpec == Init /\ [][Next]_vars /\ Progress /\ WF_vars(Restart)

\* the process when nothing kills it
NextUnkilled ==
    \/ Startup
    \/ Fetch
    \/ Synthesize
    \/ Upload
    \/ Inject
    \/ Acknowledge
    \/ Sleep
    \/ TagDeadSong

LoopSpec == Init /\ [][NextUnkilled]_vars /\ Progress

\* lines 34-37 when Voicebox accepts the connection and never answers:
\* requests.get is given no timeout and waits without limit
SynthesizeHangs ==
    /\ pc = "synth"
    /\ pc' = "hung"
    /\ UNCHANGED <<drawn, config, exitCode, catalog, queue, storage, locals, history,
                   trace, faults>>

\* the steps of the process itself
ProcessStep ==
    \/ Startup
    \/ Fetch
    \/ Synthesize
    \/ Upload
    \/ Inject
    \/ Acknowledge
    \/ Sleep

\* the process with a Voicebox that may stop answering
NextHang ==
    \/ Next
    \/ SynthesizeHangs

HangSpec == Init /\ [][NextHang]_vars /\ Progress /\ WF_vars(Restart)

TypeOK ==
    /\ pc \in Running \cup {"start", "exited", "down", "hung"}
    /\ i \in 0..NumSongs
    /\ faults \in 0..MaxFaults
    /\ \A id \in Ids : log[id] \in [synth : Outcome, upload : Outcome,
                                    insert : Outcome, ack : Outcome]

(* ------------------------------ claims -------------------------------- *)
\* check_for_dead_songs has returned; log and songs describe that poll
TickDone == pc = "sleep"
\* check_for_dead_songs is running
Polling == {"fetch", "synth", "upload", "inject", "ack"}

\* the rows of queue inserted for a song, and those inserted in the last poll
RowsFor(id) == {k \in DOMAIN forSong : forSong[k] = id}
NewRowsFor(id) == {k \in RowsFor(id) : k > mark}
Injected(id) == Cardinality(RowsFor(id))

Batch == {songs[k].id : k \in DOMAIN songs}
PreAckFailed(id) ==
    log[id].synth = "fail" \/ log[id].upload = "fail" \/ log[id].insert = "fail"
NoCallFailed(id) ==
    /\ log[id].synth # "fail"
    /\ log[id].upload # "fail"
    /\ log[id].insert # "fail"
    /\ log[id].ack # "fail"
AllCallsOk(id) ==
    log[id] = [synth |-> "ok", upload |-> "ok", insert |-> "ok", ack |-> "ok"]

\* C1: a song this process marked announced has a row that was inserted for
\* it, and a song whose insert failed in a poll is not acknowledged in it.
C1_AckOnlyAfterInsert ==
    /\ \A id \in acked : Injected(id) >= 1
    /\ \A id \in Ids : log[id].insert = "fail" => log[id].ack = "none"

\* C2 as stated: whatever fails, at most one row is ever inserted for a song.
C2_AtMostOneRow == \A id \in Ids : Injected(id) <= 1

\* C2 amended: a song has at most one row more than the number of times a
\* row was inserted for it and the acknowledgement was then not written (the
\* update failed, or the process was killed before it).
C2_AtMostOneRowPerLostAck == \A id \in Ids : Injected(id) <= 1 + lost[id]

C2_Witness == \E id \in Ids : Injected(id) = 2 /\ lost[id] = 1

\* C3: in a finished poll, if synthesis, upload or insert failed for song a,
\* every other song b of the batch none of whose calls failed has a new row
\* and is announced.
C3_FailureIsolation ==
    TickDone =>
        \A a \in Batch, b \in Batch :
            (a # b /\ PreAckFailed(a) /\ NoCallFailed(b)) =>
                /\ Cardinality(NewRowsFor(b)) = 1
                /\ log[b].ack = "ok"
                /\ catalog[b].dsw_announced

\* C4: in a finished poll, if the acknowledgement of a song failed, the songs
\* after it in the batch were still processed.
C4_AckFailureScoped ==
    TickDone =>
        \A k \in DOMAIN songs, m \in DOMAIN songs :
            (k < m /\ log[songs[k].id].ack = "fail") =>
                log[songs[m].id].synth # "none"

\* C5: a song whose upload failed in the poll has no insert and no
\* acknowledge call in that poll, no new row, and is still not announced.
C5_UploadFailure ==
    \A id \in Ids :
        log[id].upload = "fail" =>
            /\ log[id].insert = "none"
            /\ log[id].ack = "none"
            /\ NewRowsFor(id) = {}
            /\ ~catalog[id].dsw_announced

C5_Witness == TickDone /\ \E id \in Ids : log[id].upload = "fail"

\* C6: a song whose synthesis failed in the poll (an error or an empty body)
\* has no upload, insert or acknowledge call in that poll, and the loop has
\* gone on to the next song of the batch.
C6_SynthesisFailure ==
    /\ \A id \in Ids :
        log[id].synth = "fail" =>
            /\ log[id].upload = "none"
            /\ log[id].insert = "none"
            /\ log[id].ack = "none"
            /\ NewRowsFor(id) = {}
            /\ ~catalog[id].dsw_announced
    /\ \A k \in DOMAIN songs :
        (log[songs[k].id].synth = "fail" /\ k < Len(songs)) =>
            \/ pc = "synth" /\ i = k + 1
            \/ log[songs[k + 1].id].synth # "none"

C6_Witness ==
    \E k \in DOMAIN songs :
        /\ k < Len(songs)
        /\ log[songs[k].id].synth = "fail"
        /\ log[songs[k + 1].id].ack = "ok"

\* C7: a song all of whose calls succeeded in the poll is announced and has
\* exactly one new row, titled with the alert prefix followed by its title.
C7_SuccessfulRun ==
    \A id \in Ids :
        AllCallsOk(id) =>
            /\ catalog[id].dsw_announced
            /\ Cardinality(NewRowsFor(id)) = 1
            /\ \A k \in NewRowsFor(id) : queue[k].title = AlertPrefix \o TitleOf(id)

C7_Witness == \E id \in Ids : AllCallsOk(id) /\ catalog[id].is_dsw

\* C8: a successful query returns exactly the songs with is_dsw and not
\* dsw_announced, and no step inserts a row for, synthesises or uploads for a
\* song that is announced.
C8_Idempotent ==
    [][/\ (pc = "fetch" /\ pc' \in {"synth", "sleep"} /\ faults' = faults) =>
            /\ {songs'[k].id : k \in DOMAIN songs'} =
                   {id \in Ids : catalog[id].is_dsw /\ ~catalog[id].dsw_announced}
            /\ Len(songs') = Cardinality({songs'[k].id : k \in DOMAIN songs'})
       /\ \A id \in Ids :
            catalog[id].dsw_announced =>
                /\ Injected(id)' = Injected(id)
                /\ log'[id].synth \in {log[id].synth, "none"}
                /\ log'[id].upload \in {log[id].upload, "none"}
      ]_vars

\* a song this process announced, after a later poll that left it alone
C8_Witness ==
    \E id \in acked : TickDone /\ log[id] = NoLog /\ Injected(id) = 1

\* C9: a song whose iteration had not ended when the process was killed is
\* not announced until, after the restart, it is fetched and synthesised
\* again, which happens; and again and again a poll's batch holds every
\* tagged song that is not announced.
C9_AtLeastOnce ==
    /\ [](\A id \in interrupted : ~catalog[id].dsw_announced)
    /\ [](interrupted # {} => <>(interrupted = {}))
    /\ []<>(\/ ~(config.url /\ config.key)
            \/ \A id \in Ids :
                 (catalog[id].is_dsw /\ ~catalog[id].dsw_announced) => id \in Batch)

\* a song killed between insert and acknowledge is being processed again
C9_Witness ==
    \E id \in Ids :
        /\ lost[id] = 1
        /\ Injected(id) = 1
        /\ pc = "synth"
        /\ i > 0
        /\ songs[i].id = id
        /\ interrupted = {id}

\* C10: whatever fails, a poll that has begun ends in the wait of line 127,
\* and the wait is followed by the next poll.
C10_LoopNeverStops ==
    /\ [](pc \in Polling => <>(pc = "sleep"))
    /\ [](pc = "sleep" => <>(pc = "fetch"))

\* the poll after one in which the query, or an acknowledgement, failed
C10_Witness ==
    /\ pc = "synth"
    /\ faults = MaxFaults
    /\ \E id \in Ids : lost[id] >= 1

\* the poll's query raised: line 121 printed its report and nothing else ran
FetchFailed == printed # <<>> /\ printed[1].by = "fetch"
Unannounced == {id \in Ids : catalog[id].is_dsw /\ ~catalog[id].dsw_announced}

\* C11: a poll whose query fails makes no synthesis, upload, insert or
\* acknowledge call, leaves the catalog, the bucket and the queue as they
\* were, and ends in the wait of line 127.
C11_FetchFailureSkipsTick ==
    [][(pc = "fetch" /\ pc' # "down" /\ printed' # <<>> /\ printed'[1].by = "fetch") =>
           /\ pc' = "sleep"
           /\ catalog' = catalog
           /\ queue' = queue
           /\ storage' = storage
           /\ published' = published
           /\ drawn' = drawn
           /\ \A id \in Ids : log'[id] = NoLog
      ]_vars

\* a skipped poll, with a song waiting to be announced
C11_Witness == TickDone /\ FetchFailed /\ Unannounced # {}

\* C12: a poll whose query returns no row makes no synthesis, upload, insert
\* or acknowledge call, leaves the catalog, the bucket and the queue as they
\* were, and ends in the wait of line 127.
C12_EmptyFetchIdle ==
    [][(pc = "fetch" /\ pc' # "down" /\ printed' = <<>> /\ songs' = <<>>) =>
           /\ pc' = "sleep"
           /\ catalog' = catalog
           /\ queue' = queue
           /\ storage' = storage
           /\ published' = published
           /\ drawn' = drawn
           /\ \A id \in Ids : log'[id] = NoLog
      ]_vars

\* an idle poll after one that inserted a row
C12_Witness ==
    TickDone /\ songs = <<>> /\ printed = <<>> /\ queue # <<>> /\ mark = Len(queue)

\* C13: no step takes dsw_announced of a song from true to false, and every
\* acknowledgement that succeeds takes it from false to true.
C13_AnnouncedMonotonic ==
    [][\A id \in Ids :
          /\ catalog[id].dsw_announced => catalog'[id].dsw_announced
          /\ (log[id].ack # "ok" /\ log'[id].ack = "ok") =>
                (~catalog[id].dsw_announced /\ catalog'[id].dsw_announced)
      ]_vars

\* an announced song, polls and failures later
C13_Witness ==
    \E id \in acked : catalog[id].dsw_announced /\ pc = "fetch" /\ faults = MaxFaults

\* what line 121 prints when the query of line 84 raises
FetchReports == {PollReport(e) : e \in Exceptions}

\* C14: an acknowledgement that fails after its row was inserted is reported,
\* and its report is none of the reports a failed query prints.
C14_AckFailureDistinct ==
    \A id \in Ids :
        (log[id].insert = "ok" /\ log[id].ack = "fail") =>
            \E k \in DOMAIN printed :
                printed[k].by = "ack" /\ printed[k].text \notin FetchReports

\* C15: a process waiting for an answer that never comes has a step to take:
\* the call is abandoned and the loop goes on.
C15_NoStall == pc = "hung" => ENABLED ProcessStep

\* C16: every row of the queue has status "next_play", source
\* "ai_announcement", the announcer's name as artist, 15 seconds, the bot as
\* uploader and is_canvas false, whichever song it announces; two rows differ
\* in nothing but the title and the audio URL.
C16_FixedFields ==
    /\ \A k \in DOMAIN queue :
         /\ queue[k].status = "next_play"
         /\ queue[k].source = "ai_announcement"
         /\ queue[k].artist_name = "DJ Python"
         /\ queue[k].duration_sec = 15
         /\ queue[k].uploader_id = "dj-python-bot"
         /\ queue[k].is_canvas = FALSE
    /\ \A k, m \in DOMAIN queue :
         [queue[k] EXCEPT !.title = "", !.audio_url = ""]
             = [queue[m] EXCEPT !.title = "", !.audio_url = ""]
C16_Witness ==
    \E k, m \in DOMAIN queue :
        /\ forSong[k] # forSong[m]
        /\ queue[k].title # queue[m].title
        /\ queue[k].audio_url # queue[m].audio_url

\* C17: a step of the poll changes the catalog only at the acknowledgement,
\* and then only dsw_announced of the row of the song at hand; no step
\* changes or removes a row of the queue: the queue grows at its end only.
C17_Frame ==
    [][/\ (pc \in Polling /\ catalog' # catalog) =>
              /\ pc = "ack"
              /\ catalog' = [catalog EXCEPT ![songs[i].id].dsw_announced = TRUE]
       /\ Len(queue') >= Len(queue)
       /\ SubSeq(queue', 1, Len(queue)) = queue
       /\ (queue' # queue) => (pc = "inject" /\ Len(queue') = Len(queue) + 1)]_vars
C17_Witness ==
    /\ Len(queue) >= 2
    /\ \E id \in Ids :
         /\ log[id].ack = "ok"
         /\ catalog[id].dsw_announced
         /\ \E o \in Ids \ {id} : catalog[o].is_dsw /\ ~catalog[o].dsw_announced

\* C18: with the URL or the key missing the process exits with status 1 at
\* startup and never polls: no fetch, synthesis, upload, insert or
\* acknowledgement is made.
C18_MissingCredentialExits ==
    (~config.url \/ ~config.key) =>
        /\ pc \in {"start", "exited"}
        /\ pc = "exited" => exitCode = <<1>>
        /\ queue = <<>>
        /\ \A p \in Paths : storage[p] = NoneVal
        /\ \A id \in Ids : log[id] = NoLog
        /\ printed = <<>>
        /\ published = 0
        /\ drawn = 0
        /\ acked = {}
        /\ songs = <<>>
C18_Witness == pc = "exited" /\ exitCode = <<1>> /\ config.url /\ ~config.key

\* C19: within the iteration of a song the upload is called only after the
\* synthesis gave non-empty audio, the insert only after that upload returned
\* its URL, and the update only after the insert was called; an inserted row
\* carries the URL of the object uploaded in that iteration, and the queue
\* never has more rows than there were successful uploads.
C19_StepOrdering ==
    [][/\ \A id \in Ids :
            /\ (log'[id].upload # log[id].upload /\ log'[id].upload # "none") =>
                   /\ pc = "upload" /\ songs[i].id = id
                   /\ log[id].synth = "ok"
                   /\ ~Falsy(audio_bytes)
            /\ (log'[id].insert # log[id].insert /\ log'[id].insert # "none") =>
                   /\ pc = "inject" /\ songs[i].id = id
                   /\ log[id].upload = "ok"
                   /\ public_url # NoneVal
            /\ (log'[id].ack # log[id].ack /\ log'[id].ack # "none") =>
                   /\ pc = "ack" /\ songs[i].id = id
                   /\ log[id].insert # "none"
       /\ (Len(queue') > Len(queue)) =>
              /\ queue'[Len(queue')].audio_url = public_url
              /\ \E p \in Paths :
                   /\ public_url = PublicUrl(p)
                   /\ storage[p] = Mp3(Script(songs[i]))
              /\ log[songs[i].id].upload = "ok"
       /\ Len(queue') <= published']_vars
C19_Witness ==
    /\ pc = "ack"
    /\ log[Song.id].insert = "ok"
    /\ Len(queue) > mark
    /\ queue[Len(queue)].audio_url = public_url
    /\ published >= 2
====
